---- MODULE Spec2Model ----
(***************************************************************************)
(* CareNavX patient onboarding: the patient store, the activity log, the   *)
(* HTTP routes that create / update / complete a patient, and the wizard   *)
(* pages that drive them.                                                   *)
(*                                                                         *)
(* The repository carries two generations of the server: the MongoDB       *)
(* storage with its routes (server/storage.ts, unnamed/part_007) and the   *)
(* in-memory storage with its routes (unnamed/part_005, unnamed/part_006). *)
(* The variable backend selects the generation for a whole behaviour.      *)
(***************************************************************************)
EXTENDS Integers, Sequences, FiniteSets, TLC

\* ------------------------------------------------------------------------
\* Bounds of the model
\* ------------------------------------------------------------------------
MaxPatients == 2
MaxReq == 3
MaxWizardReq == 5

\* ------------------------------------------------------------------------
\* JavaScript values
\* ------------------------------------------------------------------------
Undef == "<undefined>"
Null == "<null>"

\* the id 0 stands for the literal string "undefined" that a client puts in
\* the URL when it has no id; ids 1.. are ids the store has handed out or
\* could hand out
UndefinedId == 0

\* in the browser: no patient id at all (null, or no patientId parameter),
\* and the EMG-... id the emergency page makes up
NoId == -1
EmgId == -2

Empty(v) == v \in {Undef, Null, ""}

\* { ...a, ...b }
Merge(a, b) ==
  [f \in (DOMAIN a) \cup (DOMAIN b) |-> IF f \in DOMAIN b THEN b[f] ELSE a[f]]

\* the object a restricted to the keys in keys
Pick(a, keys) == [f \in (DOMAIN a) \cap keys |-> a[f]]

\* a[f], or undefined when the key is absent
Field(a, f) == IF f \in DOMAIN a THEN a[f] ELSE Undef

\* the keys that hold a number, a boolean or a date; every other key holds a
\* string, null or undefined
NonStringFields ==
  {"onboardingStep", "isCompleted", "isEmergency", "createdAt", "updatedAt"}

\* the key f is present in a with the value undefined
IsUndefined(a, f) == f \notin NonStringFields /\ a[f] = Undef

\* x || null for the optional string fields
OrNull(a, f) == IF f \in DOMAIN a /\ ~Empty(a[f]) THEN a[f] ELSE Null

\* ------------------------------------------------------------------------
\* State
\* ------------------------------------------------------------------------
VARIABLES
  backend,     \* "mongo": server/storage.ts with the routes of part_007;
               \* "mem": MemStorage (part_005) with the routes of part_006
  patients,    \* the patient collection: patients[id] is the stored record
  activities,  \* the activity collection, in insertion order
  nreq,        \* requests served so far; new Date() of a request is nreq + 1
  lastResp,    \* the request served last and the response it got
  stepHist,    \* per patient, the distinct successive values of onboardingStep
  handlers,    \* complete requests the server has received, each with the
               \* point its handler has reached
  page,        \* the wizard page the browser session shows
  url,         \* the query parameters of the current location
  pidState,    \* the personal page's patientId state
  uploadingDocument,  \* the personal page's uploadingDocument state
  pending,     \* requests of the personal page that are in flight
  visits,      \* times the personal page was opened (0, 1, many)
  submits,     \* times the personal form was submitted (0, 1, many)
  selectedEmergencyType,  \* the emergency page's selection
  saveState,   \* the confirmation page's saveEmergencyPatient mutation
  sessCreated, \* patient records the session's requests have created
  showOnboarding,  \* the home page shows the multi-step onboarding form
  emergencyMode,   \* the home page's emergencyMode state
  currentStep,     \* the onboarding form's currentStep state
  patientId,       \* the onboarding form's patientId state
  mutations        \* requests of the onboarding form that are in flight

store == <<backend, patients, activities, nreq, lastResp, stepHist, handlers>>
browser ==
  <<page, url, pidState, uploadingDocument, pending, visits, submits,
    selectedEmergencyType, saveState, sessCreated>>
form == <<showOnboarding, emergencyMode, currentStep, patientId, mutations>>
vars == <<store, browser, form>>

Backends == {"mongo", "mem"}

Ids == 1..Len(patients)

\* ids a request may carry: the literal "undefined", existing ids, and ids
\* that name no record
ReqIds == 0..MaxPatients

Now == nreq + 1

\* ------------------------------------------------------------------------
\* Request bodies the clients send
\* ------------------------------------------------------------------------
GeneralAdmission == "General Admission - Room 204B"
EmergencyBed == "Emergency Room - Bed 12A"

Locations == {GeneralAdmission, EmergencyBed}

\* the scenario payload of the personal step, as createPatientMutation sends it
PersonalBody(isEmergency) ==
  [firstName |-> "Jane", lastName |-> "Doe", dateOfBirth |-> "1990-01-01",
   phone |-> "5551234567", address |-> "1 Main St",
   isEmergency |-> isEmergency, onboardingStep |-> 1]

RequiredFields == {"firstName", "lastName", "dateOfBirth", "phone", "address"}

Without(a, f) == [g \in (DOMAIN a) \ {f} |-> a[g]]

\* the record saveEmergencyPatient posts for the location name locName
EmergencyData(locName, emergencyType) ==
  [firstName |-> "Emergency", lastName |-> "Patient",
   dateOfBirth |-> "2026-01-01", phone |-> "Emergency",
   address |-> "Emergency Admission", isEmergency |-> TRUE,
   admissionLocation |-> locName, onboardingStep |-> 2, isCompleted |-> TRUE,
   emergencyType |-> emergencyType]

InsuranceBody ==
  [insuranceProvider |-> "Aetna", insurancePolicyNumber |-> "P-1",
   insuranceGroupNumber |-> "", onboardingStep |-> 2]

MedicalBody ==
  [allergies |-> "", medications |-> "", medicalHistory |-> "history",
   onboardingStep |-> 3]

\* ------------------------------------------------------------------------
\* Validation schemas
\* ------------------------------------------------------------------------
PatientSchemaFields ==
  {"firstName", "lastName", "dateOfBirth", "phone", "address",
   "emergencyContactName", "emergencyContactRelationship",
   "emergencyContactPhone", "insuranceProvider", "insurancePolicyNumber",
   "insuranceGroupNumber", "insuranceStatus", "medicalHistory", "allergies",
   "medications", "onboardingStep", "isCompleted", "isEmergency",
   "admissionLocation", "emergencyType"}

\* z.string().min(n): the key is present, holds a string, of length >= n
StringMin(body, f, n) ==
  f \in DOMAIN body /\ body[f] \notin {Undef, Null} /\ Len(body[f]) >= n

\* z.string().optional(): absent, or a string (null is rejected)
OptionalStringFields ==
  {"emergencyContactName", "emergencyContactRelationship",
   "emergencyContactPhone", "insuranceProvider", "insurancePolicyNumber",
   "insuranceGroupNumber", "insuranceStatus", "allergies", "medications",
   "admissionLocation", "emergencyType"}

StringOptional(body, f) == f \in DOMAIN body => body[f] # Null

\* a patientSchema whose address is optional
PatientSchemaOkAddressOptional(body) ==
  /\ StringMin(body, "firstName", 1)
  /\ StringMin(body, "lastName", 1)
  /\ StringMin(body, "dateOfBirth", 1)
  /\ StringMin(body, "phone", 1)
  /\ \A f \in OptionalStringFields : StringOptional(body, f)

\* patientSchema.parse(req.body) does not throw
PatientSchemaOk(body) ==
  /\ StringMin(body, "firstName", 1)
  /\ StringMin(body, "lastName", 1)
  /\ StringMin(body, "dateOfBirth", 1)
  /\ StringMin(body, "phone", 1)
  /\ StringMin(body, "address", 1)
  /\ \A f \in OptionalStringFields : StringOptional(body, f)

\* what patientSchema.parse returns: unknown keys are stripped
PatientSchemaParse(body) == Pick(body, PatientSchemaFields)

\* insertPatientSchema of @shared/schema, used by the routes of part_006:
\* the five personal fields are required and non-empty, and the parsed value
\* holds the columns of the patient record
InsertPatientSchemaOk(body) ==
  \A f \in RequiredFields : StringMin(body, f, 1)

InsertPatientSchemaParse(body) ==
  Pick(body, PatientSchemaFields \ {"emergencyType"})

\* personalInfoSchema of the personal page (zodResolver gates onSubmit)
PhoneMinLength == 10

PersonalInfoSchemaOk(body) ==
  /\ StringMin(body, "firstName", 1)
  /\ StringMin(body, "lastName", 1)
  /\ StringMin(body, "dateOfBirth", 1)
  /\ StringMin(body, "phone", PhoneMinLength)
  /\ StringMin(body, "address", 1)

\* ------------------------------------------------------------------------
\* MongoDB storage (server/db.ts, server/storage.ts)
\* A store operation's result: the collection afterwards, whether the
\* operation threw, and the id of the record it returns (0: undefined).
\* fail: the database call inside the operation rejects.
\* ------------------------------------------------------------------------
MongoSchemaFields ==
  {"firstName", "lastName", "dateOfBirth", "phone", "address",
   "emergencyContactName", "emergencyContactRelationship",
   "emergencyContactPhone", "insuranceProvider", "insurancePolicyNumber",
   "insuranceGroupNumber", "insuranceStatus", "medicalHistory", "allergies",
   "medications", "onboardingStep", "isCompleted", "isEmergency",
   "admissionLocation", "createdAt", "updatedAt"}

MongoSchemaDefaults ==
  [insuranceStatus |-> "pending", onboardingStep |-> 1, isCompleted |-> FALSE,
   isEmergency |-> FALSE]

\* an update document as Mongoose applies it: keys outside the schema and
\* keys whose value is undefined are dropped
MongoUpdateDoc(updates) ==
  [f \in {g \in (DOMAIN updates) \cap MongoSchemaFields : ~IsUndefined(updates, g)}
     |-> updates[f]]

MongoGetPatient(ps, id, fail) ==
  [patients |-> ps, threw |-> FALSE,
   ret |-> IF ~fail /\ id \in 1..Len(ps) THEN id ELSE 0]

MongoCreatePatient(ps, insertPatient, t, fail) ==
  IF fail
  THEN [patients |-> ps, threw |-> TRUE, ret |-> 0]
  ELSE [patients |->
          Append(ps, Merge(MongoSchemaDefaults,
                           Merge(Pick(insertPatient, MongoSchemaFields),
                                 [createdAt |-> t, updatedAt |-> t]))),
        threw |-> FALSE, ret |-> Len(ps) + 1]

MongoUpdatePatient(ps, id, updates, t, fail) ==
  IF fail \/ id \notin 1..Len(ps)
  THEN [patients |-> ps, threw |-> FALSE, ret |-> 0]
  ELSE [patients |->
          [ps EXCEPT ![id] =
             Merge(@, MongoUpdateDoc(Merge(updates, [updatedAt |-> t])))],
        threw |-> FALSE, ret |-> id]

\* a mutation of MongoCompleteOnboarding: completion also stores the step the
\* dashboard counts as completed
MongoCompleteOnboardingStepFour(ps, id, admissionLocation, t, fail) ==
  IF fail \/ id \notin 1..Len(ps)
  THEN [patients |-> ps, threw |-> FALSE, ret |-> 0]
  ELSE [patients |->
          [ps EXCEPT ![id] =
             Merge(@, MongoUpdateDoc([isCompleted |-> TRUE,
                                      onboardingStep |-> 4,
                                      admissionLocation |-> admissionLocation,
                                      updatedAt |-> t]))],
        threw |-> FALSE, ret |-> id]

\* a completeOnboarding that keeps the admission location of a patient that
\* is already completed
MongoCompleteOnboardingKeepsFirst(ps, id, admissionLocation, t, fail) ==
  IF fail \/ id \notin 1..Len(ps)
  THEN [patients |-> ps, threw |-> FALSE, ret |-> 0]
  ELSE [patients |->
          [ps EXCEPT ![id] =
             IF @.isCompleted
             THEN Merge(@, [updatedAt |-> t])
             ELSE Merge(@, MongoUpdateDoc([isCompleted |-> TRUE,
                                           admissionLocation |-> admissionLocation,
                                           updatedAt |-> t]))],
        threw |-> FALSE, ret |-> id]

MongoCompleteOnboarding(ps, id, admissionLocation, t, fail) ==
  IF fail \/ id \notin 1..Len(ps)
  THEN [patients |-> ps, threw |-> FALSE, ret |-> 0]
  ELSE [patients |->
          [ps EXCEPT ![id] =
             Merge(@, MongoUpdateDoc([isCompleted |-> TRUE,
                                      admissionLocation |-> admissionLocation,
                                      updatedAt |-> t]))],
        threw |-> FALSE, ret |-> id]

MongoCreateActivity(acts, insertActivity, t, fail) ==
  IF fail
  THEN [activities |-> acts, threw |-> TRUE]
  ELSE [activities |-> Append(acts, Merge(insertActivity, [createdAt |-> t])),
        threw |-> FALSE]

\* ------------------------------------------------------------------------
\* In-memory storage (unnamed/part_005): a Map, no operation can fail
\* ------------------------------------------------------------------------
MemOptionalFields ==
  {"emergencyContactName", "emergencyContactRelationship",
   "emergencyContactPhone", "insuranceProvider", "insurancePolicyNumber",
   "insuranceGroupNumber", "insuranceStatus", "medicalHistory", "allergies",
   "medications", "admissionLocation"}

MemGetPatient(ps, id) ==
  [patients |-> ps, threw |-> FALSE, ret |-> IF id \in 1..Len(ps) THEN id ELSE 0]

MemCreatePatient(ps, insertPatient, t) ==
  [patients |->
     Append(ps,
       Merge(insertPatient,
         Merge([f \in MemOptionalFields |-> OrNull(insertPatient, f)],
               [onboardingStep |-> IF "onboardingStep" \in DOMAIN insertPatient
                                   THEN insertPatient.onboardingStep ELSE 1,
                isCompleted |-> IF "isCompleted" \in DOMAIN insertPatient
                                THEN insertPatient.isCompleted ELSE FALSE,
                isEmergency |-> IF "isEmergency" \in DOMAIN insertPatient
                                THEN insertPatient.isEmergency ELSE FALSE,
                createdAt |-> t, updatedAt |-> t]))),
   threw |-> FALSE, ret |-> Len(ps) + 1]

MemUpdatePatient(ps, id, updates, t) ==
  IF id \notin 1..Len(ps)
  THEN [patients |-> ps, threw |-> FALSE, ret |-> 0]
  ELSE [patients |->
          [ps EXCEPT ![id] = Merge(Merge(@, updates), [updatedAt |-> t])],
        threw |-> FALSE, ret |-> id]

\* a completeOnboarding that also advances onboardingStep
MemCompleteOnboardingAdvancing(ps, id, admissionLocation, t) ==
  IF id \notin 1..Len(ps)
  THEN [patients |-> ps, threw |-> FALSE, ret |-> 0]
  ELSE [patients |->
          [ps EXCEPT ![id] =
             Merge(@, [isCompleted |-> TRUE,
                       onboardingStep |-> @.onboardingStep + 1,
                       admissionLocation |-> admissionLocation,
                       updatedAt |-> t])],
        threw |-> FALSE, ret |-> id]

MemCompleteOnboarding(ps, id, admissionLocation, t) ==
  IF id \notin 1..Len(ps)
  THEN [patients |-> ps, threw |-> FALSE, ret |-> 0]
  ELSE [patients |->
          [ps EXCEPT ![id] =
             Merge(@, [isCompleted |-> TRUE,
                       admissionLocation |-> admissionLocation,
                       updatedAt |-> t])],
        threw |-> FALSE, ret |-> id]

\* a mutation of MemCreateActivity: the map is keyed by the patient, so an
\* activity replaces the earlier one of its patient
MemCreateActivityPerPatient(acts, insertActivity, t) ==
  [activities |->
     Append(SelectSeq(acts, LAMBDA a : a.patientId # insertActivity.patientId),
            Merge(insertActivity, [createdAt |-> t])),
   threw |-> FALSE]

MemCreateActivity(acts, insertActivity, t) ==
  [activities |-> Append(acts, Merge(insertActivity, [createdAt |-> t])),
   threw |-> FALSE]

\* ------------------------------------------------------------------------
\* Activities the routes log
\* ------------------------------------------------------------------------
PatientActivity(p, id, action) ==
  [patientId |-> id, action |-> action,
   description |-> <<action, Field(p, "firstName"), Field(p, "lastName")>>]

CompletedActivity(p, id, admissionLocation) ==
  [patientId |-> id, action |-> "onboarding_completed",
   description |-> <<"onboarding_completed", Field(p, "firstName"),
                     Field(p, "lastName"), admissionLocation>>]

\* ------------------------------------------------------------------------
\* Route handlers. A handler's result: the collections it leaves behind, the
\* HTTP status it answers, whether a database call of the request failed,
\* and the id of the record in the response body (0: none).
\* ------------------------------------------------------------------------
Result(ps, acts, status, dbFailed, id) ==
  [patients |-> ps, activities |-> acts, status |-> status,
   dbFailed |-> dbFailed, id |-> id]

NoBody == <<>>

\* --- routes over the MongoDB storage (unnamed/part_007) ---

\* GET /api/patients/:id without the check of the literal "undefined"
MongoGetRouteUnchecked(ps, acts, id, fail) ==
  LET g == MongoGetPatient(ps, id, fail)
  IN  IF g.ret = 0
      THEN Result(ps, acts, 404, fail, 0)
      ELSE Result(ps, acts, 200, FALSE, g.ret)

\* GET /api/patients/:id
MongoGetRoute(ps, acts, id, fail) ==
  IF id = UndefinedId
  THEN Result(ps, acts, 400, FALSE, 0)
  ELSE LET g == MongoGetPatient(ps, id, fail)
       IN  IF g.ret = 0
           THEN Result(ps, acts, 404, fail, 0)
           ELSE Result(ps, acts, 200, FALSE, g.ret)

\* POST /api/patients
MongoCreateRoute(ps, acts, t, body, failPatient, failActivity) ==
  IF ~PatientSchemaOk(body)
  THEN Result(ps, acts, 400, FALSE, 0)
  ELSE LET c == MongoCreatePatient(ps, PatientSchemaParse(body), t, failPatient)
       IN  IF c.threw
           THEN Result(ps, acts, 400, TRUE, 0)
           ELSE LET a == MongoCreateActivity(acts,
                           PatientActivity(c.patients[c.ret], c.ret,
                                           "patient_created"),
                           t, failActivity)
                IN  IF a.threw
                    THEN Result(c.patients, acts, 400, TRUE, 0)
                    ELSE Result(c.patients, a.activities, 201, FALSE, c.ret)

\* PATCH /api/patients/:id
MongoUpdateRoute(ps, acts, t, id, updates, failPatient, failActivity) ==
  IF id = UndefinedId
  THEN Result(ps, acts, 400, FALSE, 0)
  ELSE LET u == MongoUpdatePatient(ps, id, updates, t, failPatient)
       IN  IF u.ret = 0
           THEN Result(ps, acts, 404, failPatient, 0)
           ELSE LET a == MongoCreateActivity(acts,
                           PatientActivity(u.patients[id], id, "patient_updated"),
                           t, failActivity)
                IN  IF a.threw
                    THEN Result(u.patients, acts, 400, TRUE, 0)
                    ELSE Result(u.patients, a.activities, 200, FALSE, id)

\* POST /api/patients/:id/complete
MongoCompleteRoute(ps, acts, t, id, body, failPatient, failActivity) ==
  LET admissionLocation == Field(body, "admissionLocation")
  IN  IF id = UndefinedId
      THEN Result(ps, acts, 400, FALSE, 0)
      ELSE LET c == MongoCompleteOnboarding(ps, id, admissionLocation, t,
                                            failPatient)
           IN  IF c.ret = 0
               THEN Result(ps, acts, 404, failPatient, 0)
               ELSE LET a == MongoCreateActivity(acts,
                               CompletedActivity(c.patients[id], id,
                                                 admissionLocation),
                               t, failActivity)
                    IN  IF a.threw
                        THEN Result(c.patients, acts, 500, TRUE, 0)
                        ELSE Result(c.patients, a.activities, 200, FALSE, id)

\* --- routes over the in-memory storage (unnamed/part_006) ---

\* GET /api/patients/:id
MemGetRoute(ps, acts, id) ==
  LET g == MemGetPatient(ps, id)
  IN  IF g.ret = 0
      THEN Result(ps, acts, 404, FALSE, 0)
      ELSE Result(ps, acts, 200, FALSE, g.ret)

\* POST /api/patients
MemCreateRoute(ps, acts, t, body) ==
  IF ~InsertPatientSchemaOk(body)
  THEN Result(ps, acts, 400, FALSE, 0)
  ELSE LET c == MemCreatePatient(ps, InsertPatientSchemaParse(body), t)
           a == MemCreateActivity(acts,
                  PatientActivity(c.patients[c.ret], c.ret, "patient_created"), t)
       IN  Result(c.patients, a.activities, 201, FALSE, c.ret)

\* PATCH /api/patients/:id
MemUpdateRoute(ps, acts, t, id, updates) ==
  LET u == MemUpdatePatient(ps, id, updates, t)
  IN  IF u.ret = 0
      THEN Result(ps, acts, 404, FALSE, 0)
      ELSE LET a == MemCreateActivity(acts,
                      PatientActivity(u.patients[id], id, "patient_updated"), t)
           IN  Result(u.patients, a.activities, 200, FALSE, id)

\* POST /api/patients/:id/complete
MemCompleteRoute(ps, acts, t, id, body) ==
  LET admissionLocation == Field(body, "admissionLocation")
      c == MemCompleteOnboarding(ps, id, admissionLocation, t)
  IN  IF c.ret = 0
      THEN Result(ps, acts, 404, FALSE, 0)
      ELSE LET a == MemCreateActivity(acts,
                      CompletedActivity(c.patients[id], id, admissionLocation), t)
           IN  Result(c.patients, a.activities, 200, FALSE, id)

\* analyzeDocument: every failure of the provider (no key, a refused call, an
\* answer that is not JSON) is caught and reported in the error field
AnalyzeDocument(providerFails, text) ==
  IF providerFails
  THEN [extractedText |-> "", documentType |-> "unknown", confidence |-> 0,
        error |-> "Document analysis failed"]
  ELSE [extractedText |-> text, documentType |-> "id_card", confidence |-> 1]

\* extractPatientData: {} for an empty text and for every failure of the
\* provider, the cleaned fields of the answer otherwise
ExtractPatientData(extractedText, providerFails, result) ==
  IF providerFails \/ extractedText = "" THEN <<>> ELSE result

\* a mutation of MemDocumentsRoute: a failed analysis fails the request
MemDocumentsRouteFatal(ps, acts, t, id, ai) ==
  IF MemGetPatient(ps, id).ret = 0
  THEN Result(ps, acts, 404, FALSE, 0)
  ELSE LET analysisResult == AnalyzeDocument(ai.analysisFails, ai.text)
           extractedData ==
             IF "error" \notin DOMAIN analysisResult
             THEN ExtractPatientData(analysisResult.extractedText,
                                     ai.extractionFails, ai.result)
             ELSE <<>>
           u == IF DOMAIN extractedData # {}
                THEN MemUpdatePatient(ps, id, extractedData, t)
                ELSE [patients |-> ps, threw |-> FALSE, ret |-> id]
           a == MemCreateActivity(acts,
                  [patientId |-> id, action |-> "document_uploaded",
                   description |-> <<"document_uploaded">>], t)
       IN  IF "error" \in DOMAIN analysisResult
           THEN Result(ps, acts, 500, FALSE, 0)
           ELSE Result(u.patients, a.activities, 200, FALSE, 0)

\* POST /api/patients/:id/documents; ai is what the provider does during the
\* request: whether each of its two calls fails, the text it reads and the
\* fields it finds
MemDocumentsRoute(ps, acts, t, id, ai) ==
  IF MemGetPatient(ps, id).ret = 0
  THEN Result(ps, acts, 404, FALSE, 0)
  ELSE LET analysisResult == AnalyzeDocument(ai.analysisFails, ai.text)
           extractedData ==
             IF "error" \notin DOMAIN analysisResult
             THEN ExtractPatientData(analysisResult.extractedText,
                                     ai.extractionFails, ai.result)
             ELSE <<>>
           u == IF DOMAIN extractedData # {}
                THEN MemUpdatePatient(ps, id, extractedData, t)
                ELSE [patients |-> ps, threw |-> FALSE, ret |-> id]
           a == MemCreateActivity(acts,
                  [patientId |-> id, action |-> "document_uploaded",
                   description |-> <<"document_uploaded">>], t)
       IN  Result(u.patients, a.activities, 200, FALSE, 0)

\* --- recent activities ---
RecentLimit == 10

\* getRecentActivities of both storages: a sorted copy, newest first (equal
\* times keep their order of insertion), cut at limit
GetRecentActivities(acts, limit) ==
  LET n == Len(acts)
      Before(i, j) == \/ acts[i].createdAt > acts[j].createdAt
                      \/ acts[i].createdAt = acts[j].createdAt /\ i < j
      rank(i) == Cardinality({j \in 1..n : Before(j, i)}) + 1
      sorted == [k \in 1..n |-> acts[CHOOSE i \in 1..n : rank(i) = k]]
  IN  SubSeq(sorted, 1, IF n < limit THEN n ELSE limit)

\* GET /api/activities; DatabaseStorage answers [] when the query fails
ActivitiesRoute(acts, fail) ==
  IF backend = "mongo" /\ fail
  THEN <<>>
  ELSE GetRecentActivities(acts, RecentLimit)

\* --- dashboard statistics ---
\* the ticks of one calendar day; today.setHours(0, 0, 0, 0) is the first
\* tick of the day of t
DayLength == 2

StartOfDay(t) == t - (t % DayLength)

\* DatabaseStorage.getDashboardStats: three countDocuments, zeros from the
\* catch when the database fails; the average time is the literal 8
MongoGetDashboardStats(ps, t, fail) ==
  LET today == StartOfDay(t)
      CompletedToday(p) == p.isCompleted = TRUE /\ p.updatedAt >= today
      InProgress(p) == p.isCompleted = FALSE /\ p.onboardingStep > 0
  IN  IF fail
      THEN [totalPatients |-> 0, completedToday |-> 0, inProgress |-> 0,
            averageTime |-> 8]
      ELSE [totalPatients |-> Len(ps),
            completedToday |-> Cardinality({i \in 1..Len(ps) : CompletedToday(ps[i])}),
            inProgress |-> Cardinality({i \in 1..Len(ps) : InProgress(ps[i])}),
            averageTime |-> 8]

\* MemStorage.getDashboardStats
MemGetDashboardStats(ps, t) ==
  LET today == StartOfDay(t)
      CompletedToday(p) == p.isCompleted /\ p.updatedAt >= today
      InProgress(p) == ~p.isCompleted /\ p.onboardingStep > 0
  IN  [totalPatients |-> Len(ps),
       completedToday |-> Cardinality({i \in 1..Len(ps) : CompletedToday(ps[i])}),
       inProgress |-> Cardinality({i \in 1..Len(ps) : InProgress(ps[i])}),
       averageTime |-> 8]

\* GET /api/stats
StatsRoute(ps, t, fail) ==
  IF backend = "mongo"
  THEN MongoGetDashboardStats(ps, t, fail)
  ELSE MemGetDashboardStats(ps, t)

\* --- ambulance dispatch ---
\* !latitude, !longitude: the key is missing or holds the number 0
NoCoordinate(body, f) == f \notin DOMAIN body \/ body[f] = 0

AmbulanceActivity(body) ==
  [patientId |-> body.patientId, action |-> "ambulance_dispatched",
   description |-> <<"ambulance_dispatched", body.emergencyType>>]

\* a mutation of AmbulanceRoute: the dispatch is logged whether or not the
\* request names a patient
AmbulanceRouteAlwaysLogging(ps, acts, t, body, failActivity) ==
  IF NoCoordinate(body, "latitude") \/ NoCoordinate(body, "longitude")
  THEN Result(ps, acts, 400, FALSE, 0)
  ELSE LET a == MongoCreateActivity(acts, AmbulanceActivity(body), t,
                  failActivity \/ body.patientId = UndefinedId)
       IN  IF a.threw
           THEN Result(ps, acts, 500, failActivity, 0)
           ELSE Result(ps, a.activities, 200, FALSE, 0)

\* POST /api/emergency/ambulance; patientId NoId is the null the emergency
\* page sends; the Activity model casts patientId to an ObjectId, which throws
\* for the string "undefined"
AmbulanceRoute(ps, acts, t, body, failActivity) ==
  IF NoCoordinate(body, "latitude") \/ NoCoordinate(body, "longitude")
  THEN Result(ps, acts, 400, FALSE, 0)
  ELSE IF body.patientId # NoId
       THEN LET a == MongoCreateActivity(acts, AmbulanceActivity(body), t,
                       failActivity \/ body.patientId = UndefinedId)
            IN  IF a.threw
                THEN Result(ps, acts, 500, failActivity, 0)
                ELSE Result(ps, a.activities, 200, FALSE, 0)
       ELSE Result(ps, acts, 200, FALSE, 0)

\* --- the server of the behaviour ---
GetRoute(ps, acts, id, fail) ==
  IF backend = "mongo"
  THEN MongoGetRoute(ps, acts, id, fail)
  ELSE MemGetRoute(ps, acts, id)

CreateRoute(ps, acts, t, body, failPatient, failActivity) ==
  IF backend = "mongo"
  THEN MongoCreateRoute(ps, acts, t, body, failPatient, failActivity)
  ELSE MemCreateRoute(ps, acts, t, body)

UpdateRoute(ps, acts, t, id, updates, failPatient, failActivity) ==
  IF backend = "mongo"
  THEN MongoUpdateRoute(ps, acts, t, id, updates, failPatient, failActivity)
  ELSE MemUpdateRoute(ps, acts, t, id, updates)

CompleteRoute(ps, acts, t, id, body, failPatient, failActivity) ==
  IF backend = "mongo"
  THEN MongoCompleteRoute(ps, acts, t, id, body, failPatient, failActivity)
  ELSE MemCompleteRoute(ps, acts, t, id, body)

\* the routes of part_006 have no POST /api/emergency/ambulance
EmergencyAmbulanceRoute(ps, acts, t, body, failActivity) ==
  IF backend = "mongo"
  THEN AmbulanceRoute(ps, acts, t, body, failActivity)
  ELSE Result(ps, acts, 404, FALSE, 0)

\* the routes of part_007 have no POST /api/patients/:id/documents
DocumentsRoute(ps, acts, t, id, ai) ==
  IF backend = "mongo"
  THEN Result(ps, acts, 404, FALSE, 0)
  ELSE MemDocumentsRoute(ps, acts, t, id, ai)

\* ------------------------------------------------------------------------
\* A request is served
\* ------------------------------------------------------------------------
HistAfter(hist, ps) ==
  [i \in 1..Len(ps) |->
     IF i > Len(hist)
     THEN <<ps[i].onboardingStep>>
     ELSE IF hist[i][Len(hist[i])] = ps[i].onboardingStep
          THEN hist[i]
          ELSE Append(hist[i], ps[i].onboardingStep)]

Response(op, id, body, r, actsBefore) ==
  [op |-> op, id |-> id, body |-> body, status |-> r.status,
   dbFailed |-> r.dbFailed, actsBefore |-> actsBefore]

\* the request op(id, body) got the result r
Serve(op, id, body, r) ==
  /\ patients' = r.patients
  /\ activities' = r.activities
  /\ stepHist' = HistAfter(stepHist, r.patients)
  /\ nreq' = nreq + 1
  /\ lastResp' = Response(op, id, body, r, Len(activities))
  /\ UNCHANGED <<backend, handlers>>

\* ------------------------------------------------------------------------
\* The API under arbitrary callers
\* ------------------------------------------------------------------------
CreateBodies ==
  {PersonalBody(FALSE), PersonalBody(TRUE),
   EmergencyData("Emergency Room", "cardiac"),
   [PersonalBody(FALSE) EXCEPT !.phone = "555"]}
  \cup {Without(PersonalBody(FALSE), f) : f \in RequiredFields}
  \cup {[PersonalBody(FALSE) EXCEPT ![f] = ""] : f \in RequiredFields}

\* a PATCH body that names the emergency flag: the route takes any
\* Partial<Patient>
FlagBody == [isEmergency |-> TRUE]

\* a PATCH body that names the creation time (an earlier instant)
StampBody == [createdAt |-> 0]

UpdateBodies == {InsuranceBody, MedicalBody, FlagBody, StampBody}

CompleteBodies == {[admissionLocation |-> l] : l \in Locations} \cup {NoBody}

GetPatientRequest(id) ==
  /\ nreq < MaxReq
  /\ \E fail \in BOOLEAN :
       Serve("get", id, NoBody, GetRoute(patients, activities, id, fail))
  /\ UNCHANGED <<browser, form>>

CreatePatientRequest(body) ==
  /\ nreq < MaxReq
  /\ Len(patients) < MaxPatients
  /\ \E failPatient \in BOOLEAN, failActivity \in BOOLEAN :
       Serve("create", Len(patients) + 1, body,
             CreateRoute(patients, activities, Now, body, failPatient,
                         failActivity))
  /\ UNCHANGED <<browser, form>>

UpdatePatientRequest(id, updates) ==
  /\ nreq < MaxReq
  /\ \E failPatient \in BOOLEAN, failActivity \in BOOLEAN :
       Serve("update", id, updates,
             UpdateRoute(patients, activities, Now, id, updates, failPatient,
                         failActivity))
  /\ UNCHANGED <<browser, form>>

CompleteOnboardingRequest(id, body) ==
  /\ nreq < MaxReq
  /\ \E failPatient \in BOOLEAN, failActivity \in BOOLEAN :
       Serve("complete", id, body,
             CompleteRoute(patients, activities, Now, id, body, failPatient,
                           failActivity))
  /\ UNCHANGED <<browser, form>>

GetStatsRequest ==
  /\ nreq < MaxReq
  /\ \E fail \in BOOLEAN :
       Serve("stats", 0, StatsRoute(patients, Now, fail),
             Result(patients, activities, 200, fail /\ backend = "mongo", 0))
  /\ UNCHANGED <<browser, form>>

GetActivitiesRequest ==
  /\ nreq < MaxReq
  /\ \E fail \in BOOLEAN :
       Serve("activities", 0, [activities |-> ActivitiesRoute(activities, fail)],
             Result(patients, activities, 200, fail /\ backend = "mongo", 0))
  /\ UNCHANGED <<browser, form>>

\* dispatch requests: both coordinates, latitude 0, or one coordinate
\* missing, each without a patient id or with an id a request may carry
AmbulanceBodies ==
  UNION {{[latitude |-> 37, longitude |-> -122, emergencyType |-> "cardiac",
           patientId |-> p],
          [latitude |-> 0, longitude |-> -122, emergencyType |-> "cardiac",
           patientId |-> p],
          [longitude |-> -122, emergencyType |-> "cardiac", patientId |-> p],
          [latitude |-> 37, emergencyType |-> "cardiac", patientId |-> p]} :
         p \in {NoId} \cup ReqIds}

AmbulanceRequest(body) ==
  /\ nreq < MaxReq
  /\ \E failActivity \in BOOLEAN :
       Serve("ambulance", body.patientId, body,
             EmergencyAmbulanceRoute(patients, activities, Now, body,
                                     failActivity))
  /\ UNCHANGED <<browser, form>>

NoParams ==
  [patientId |-> NoId, emergency |-> FALSE, completed |-> FALSE,
   location |-> Null, emergencyLocation |-> Null, emergencyType |-> Null]

InitStore ==
  /\ backend \in Backends
  /\ patients = <<>>
  /\ activities = <<>>
  /\ stepHist = <<>>
  /\ handlers = {}
  /\ nreq = 0
  /\ lastResp = [op |-> "none", id |-> 0, body |-> NoBody, status |-> 0,
                 dbFailed |-> FALSE, actsBefore |-> 0]

InitBrowser ==
  /\ page = "welcome"
  /\ url = NoParams
  /\ pidState = NoId
  /\ uploadingDocument = FALSE
  /\ pending = {}
  /\ visits = 0
  /\ submits = 0
  /\ selectedEmergencyType = ""
  /\ saveState = "idle"
  /\ sessCreated = 0

InitForm ==
  /\ showOnboarding = FALSE
  /\ emergencyMode = FALSE
  /\ currentStep = 1
  /\ patientId = NoId
  /\ mutations = {}

Init == InitStore /\ InitBrowser /\ InitForm

Next ==
  \/ \E id \in ReqIds : GetPatientRequest(id)
  \/ \E body \in CreateBodies : CreatePatientRequest(body)
  \/ \E id \in ReqIds, updates \in UpdateBodies : UpdatePatientRequest(id, updates)
  \/ \E id \in ReqIds, body \in CompleteBodies : CompleteOnboardingRequest(id, body)
  \/ GetStatsRequest
  \/ GetActivitiesRequest
  \/ \E body \in AmbulanceBodies : AmbulanceRequest(body)

Spec == Init /\ [][Next]_vars

\* ------------------------------------------------------------------------
\* Properties of the API
\* ------------------------------------------------------------------------
\* this step served the request op
Served(op) == nreq' = nreq + 1 /\ lastResp'.op = op

IsCompletedActivity(a, id) ==
  a.action = "onboarding_completed" /\ a.patientId = id

\* C1: when a call to the complete route on an existing patient finishes,
\* with or without a persistence error, the call has marked the patient
\* complete exactly if it has appended its onboarding_completed activity.
C1_CompletionAtomic ==
  [][(Served("complete") /\ lastResp'.id \in Ids) =>
       LET id == lastResp'.id
           marked == patients'[id] # patients[id] /\ patients'[id].isCompleted
           logged == /\ Len(activities') = Len(activities) + 1
                     /\ IsCompletedActivity(activities'[Len(activities')], id)
       IN  marked <=> logged]_vars

\* C2: every stored patient that is completed has a non-empty admission
\* location and its onboardingStep at the terminal value of its path
\* (2 for an emergency patient, 4 for a standard one).
C2_CompletedIsTerminal ==
  \A id \in Ids :
    patients[id].isCompleted =>
      /\ ~Empty(Field(patients[id], "admissionLocation"))
      /\ patients[id].onboardingStep = IF patients[id].isEmergency THEN 2 ELSE 4

\* C5: when complete(id, loc) succeeds right after a successful
\* complete(id, loc) with the same id and loc, the patient is completed at
\* loc, equals its state after the first call apart from updatedAt, and the
\* two calls together appended exactly two onboarding_completed activities.
C5_CompleteTwice ==
  [][(/\ Served("complete") /\ lastResp'.status = 200
      /\ lastResp.op = "complete" /\ lastResp.status = 200
      /\ lastResp'.id = lastResp.id
      /\ Field(lastResp'.body, "admissionLocation") \in Locations
      /\ Field(lastResp'.body, "admissionLocation")
           = Field(lastResp.body, "admissionLocation")) =>
       LET id == lastResp'.id
           n == Len(activities')
       IN  /\ patients'[id].isCompleted
           /\ Field(patients'[id], "admissionLocation")
                = Field(lastResp'.body, "admissionLocation")
           /\ Without(patients'[id], "updatedAt")
                = Without(patients[id], "updatedAt")
           /\ n = lastResp.actsBefore + 2
           /\ IsCompletedActivity(activities'[n - 1], id)
           /\ IsCompletedActivity(activities'[n], id)]_vars

\* two successive successful completions of one patient at one location
C5_Witness ==
  /\ lastResp.op = "complete" /\ lastResp.status = 200
  /\ Len(activities) >= 3
  /\ IsCompletedActivity(activities[Len(activities)], lastResp.id)
  /\ IsCompletedActivity(activities[Len(activities) - 1], lastResp.id)
  /\ activities[Len(activities)].description
       = activities[Len(activities) - 1].description
  /\ activities[Len(activities)].description[4] \in Locations
  /\ activities[Len(activities)].createdAt
       = activities[Len(activities) - 1].createdAt + 1

\* C6: when the complete route answers a request on an existing patient
\* with anything but success, the patient's isCompleted and
\* admissionLocation are what they were before the request.
C6_FailedCompletionKeepsState ==
  [][(Served("complete") /\ lastResp'.status # 200 /\ lastResp'.id \in Ids) =>
       LET id == lastResp'.id
       IN  /\ patients'[id].isCompleted = patients[id].isCompleted
           /\ Field(patients'[id], "admissionLocation")
                = Field(patients[id], "admissionLocation")]_vars

\* C8 as stated: get, update and complete on an id that names no patient
\* answer 404, change no patient and append no activity.
C8_NotFoundIs404 ==
  [][(/\ nreq' = nreq + 1
      /\ lastResp'.op \in {"get", "update", "complete"}
      /\ lastResp'.id \notin Ids) =>
       /\ lastResp'.status = 404
       /\ patients' = patients
       /\ activities' = activities]_vars

\* C8 amended: get, update and complete on an id that names no patient
\* change no patient and append no activity, and answer 404, except that
\* the routes over the MongoDB storage answer 400 to the literal id
\* "undefined".
C8_NotFoundRejected ==
  [][(/\ nreq' = nreq + 1
      /\ lastResp'.op \in {"get", "update", "complete"}
      /\ lastResp'.id \notin Ids) =>
       /\ lastResp'.status =
            IF backend = "mongo" /\ lastResp'.id = UndefinedId
            THEN 400 ELSE 404
       /\ patients' = patients
       /\ activities' = activities]_vars

\* an update or a complete of an id that names no patient was answered,
\* while the store holds a patient
C8_Witness ==
  /\ lastResp.op \in {"update", "complete"}
  /\ lastResp.id \notin Ids
  /\ lastResp.id # UndefinedId
  /\ lastResp.status = 404
  /\ Len(patients) > 0

\* the payload lacks one of the five personal fields or holds it empty
LacksRequired(body) ==
  \E f \in RequiredFields : f \notin DOMAIN body \/ Empty(body[f])

C10_FailureSurfaced ==
  lastResp.dbFailed => lastResp.status \notin {200, 201, 404}

\* ------------------------------------------------------------------------
\* The wizard pages of one browser session
\* ------------------------------------------------------------------------
\* the id a page reads as patient.id from a response: the records
\* MongoDBStorage returns carry _id and no id
ClientId(r) == IF backend = "mongo" THEN UndefinedId ELSE r.id

\* !patientId
Falsy(id) == id = NoId

Once(n) == IF n = 0 THEN 1 ELSE 2

\* values of the personal form
PersonalForm ==
  [firstName |-> "Jane", lastName |-> "Doe", dateOfBirth |-> "1990-01-01",
   phone |-> "5551234567", address |-> "1 Main St"]

FormValues ==
  {PersonalForm,
   [PersonalForm EXCEPT !.phone = "555"],
   [f \in RequiredFields |-> ""]}

\* what a document's analysis yields for extractPatientData
Extractions == {<<>>, [firstName |-> "Janet"]}

\* what the AI provider may do while one document is processed: the analysis
\* fails, or it reads a text (possibly none) and then the extraction fails or
\* answers with the fields it found
AiOutcomes ==
  {[analysisFails |-> TRUE, extractionFails |-> FALSE, text |-> "",
    result |-> <<>>],
   [analysisFails |-> FALSE, extractionFails |-> FALSE, text |-> "",
    result |-> <<>>],
   [analysisFails |-> FALSE, extractionFails |-> TRUE, text |-> "ID CARD Janet",
    result |-> <<>>]}
  \cup {[analysisFails |-> FALSE, extractionFails |-> FALSE,
         text |-> "ID CARD Janet", result |-> r] : r \in Extractions}

AiFailed(ai) == ai.analysisFails \/ ai.extractionFails

\* the payload createPatientMutation posts for the form values data
CreatePatientBody(data) ==
  Merge(data, [isEmergency |-> url.emergency, onboardingStep |-> 1])

CreateMsg(body, upload) ==
  [kind |-> "create", body |-> body, upload |-> upload, id |-> NoId]

DocumentsMsg(id) ==
  [kind |-> "documents", body |-> NoBody, upload |-> TRUE, id |-> id]

InFlight == nreq + Cardinality(pending)

\* the emergency page
EmergencyTypes == {"cardiac", "trauma", "pediatric", "general"}

EmergencyLocationIds ==
  {"emergency_room", "icu", "trauma_center", "cardiac_unit", "pediatric_er"}

EmergencyLocationName ==
  [emergency_room |-> "Emergency Room", icu |-> "Intensive Care Unit",
   trauma_center |-> "Trauma Center", cardiac_unit |-> "Cardiac Care Unit",
   pediatric_er |-> "Pediatric Emergency"]

\* the location ids handleCompleteEmergency may pick for a type
LocationsFor(emergencyType) ==
  CASE emergencyType = "cardiac" -> {"cardiac_unit"}
    [] emergencyType = "trauma" -> {"trauma_center"}
    [] emergencyType = "pediatric" -> {"pediatric_er"}
    [] OTHER -> EmergencyLocationIds

\* getLocationDetails(...).name of the confirmation page in emergency mode:
\* the entry of the location parameter, or the emergency room's
GetLocationDetails(location) ==
  IF location \in EmergencyLocationIds
  THEN EmergencyLocationName[location]
  ELSE EmergencyLocationName["emergency_room"]

\* welcome page: "Start Onboarding" / "Emergency Admission"
StartOnboarding(emergency) ==
  /\ page = "welcome"
  /\ page' = "personal"
  /\ url' = [NoParams EXCEPT !.emergency = emergency]
  /\ pidState' = NoId
  /\ uploadingDocument' = FALSE
  /\ visits' = Once(visits)
  /\ UNCHANGED <<store, form, pending, submits, selectedEmergencyType, saveState,
                 sessCreated>>

\* the route /onboarding/emergency
OpenEmergency ==
  /\ page = "welcome"
  /\ page' = "emergency"
  /\ url' = NoParams
  /\ selectedEmergencyType' = ""
  /\ UNCHANGED <<store, form, pidState, uploadingDocument, pending, visits, submits,
                 saveState, sessCreated>>

\* personal page: the form passes personalInfoSchema and onSubmit posts it
SubmitPersonal(data) ==
  /\ page = "personal"
  /\ InFlight < MaxWizardReq
  /\ \A m \in pending : m.kind # "create"
  /\ PersonalInfoSchemaOk(data)
  /\ pending' = pending \cup {CreateMsg(CreatePatientBody(data), FALSE)}
  /\ submits' = Once(submits)
  /\ UNCHANGED <<store, form, page, url, pidState, uploadingDocument, visits,
                 selectedEmergencyType, saveState, sessCreated>>

\* personal page: a file is chosen while the form holds data
UploadDocument(data) ==
  /\ page = "personal"
  /\ InFlight < MaxWizardReq
  /\ ~uploadingDocument
  /\ uploadingDocument' = TRUE
  /\ pending' = pending \cup
       {IF Falsy(pidState)
        THEN CreateMsg(CreatePatientBody(data), TRUE)
        ELSE DocumentsMsg(pidState)}
  /\ UNCHANGED <<store, form, page, url, pidState, visits, submits,
                 selectedEmergencyType, saveState, sessCreated>>

\* POST /api/patients of the personal page is served and answered
CreateAnswered(m) ==
  /\ m \in pending
  /\ m.kind = "create"
  /\ Len(patients) < MaxPatients
  /\ \E failPatient \in BOOLEAN, failActivity \in BOOLEAN :
       LET r == CreateRoute(patients, activities, Now, m.body, failPatient,
                            failActivity)
       IN  /\ Serve("create", Len(patients) + 1, m.body, r)
           /\ IF r.status = 201
              THEN /\ pidState' = ClientId(r)
                   /\ sessCreated' = sessCreated + 1
                   /\ page' = IF m.body.isEmergency THEN "confirmation"
                              ELSE "insurance"
                   /\ url' = [NoParams EXCEPT !.patientId = ClientId(r),
                                              !.emergency = m.body.isEmergency]
                   /\ saveState' = "idle"
                   /\ pending' = (pending \ {m}) \cup
                        (IF m.upload THEN {DocumentsMsg(ClientId(r))} ELSE {})
                   /\ UNCHANGED uploadingDocument
              ELSE /\ pending' = pending \ {m}
                   /\ uploadingDocument' =
                        IF m.upload THEN FALSE ELSE uploadingDocument
                   /\ UNCHANGED <<page, url, pidState, saveState, sessCreated>>
  /\ UNCHANGED <<visits, submits, selectedEmergencyType>>
  /\ UNCHANGED form

\* POST /api/patients/:id/documents is served and answered
DocumentsAnswered(m) ==
  /\ m \in pending
  /\ m.kind = "documents"
  /\ \E ai \in AiOutcomes :
       Serve("documents", m.id, ai,
             DocumentsRoute(patients, activities, Now, m.id, ai))
  /\ pending' = pending \ {m}
  /\ uploadingDocument' = FALSE
  /\ UNCHANGED <<page, url, pidState, visits, submits, selectedEmergencyType,
                 saveState, sessCreated>>
  /\ UNCHANGED form

\* insurance page: the form is submitted
SubmitInsurance ==
  /\ page = "insurance"
  /\ ~Falsy(url.patientId)
  /\ InFlight < MaxWizardReq
  /\ \E failPatient \in BOOLEAN, failActivity \in BOOLEAN :
       LET r == UpdateRoute(patients, activities, Now, url.patientId,
                            InsuranceBody, failPatient, failActivity)
       IN  /\ Serve("update", url.patientId, InsuranceBody, r)
           /\ page' = IF r.status = 200 THEN "medical" ELSE page
  /\ UNCHANGED <<url, pidState, uploadingDocument, pending, visits, submits,
                 selectedEmergencyType, saveState, sessCreated>>
  /\ UNCHANGED form

\* insurance page: "Back"
BackToPersonal ==
  /\ page = "insurance"
  /\ page' = "personal"
  /\ pidState' = NoId
  /\ uploadingDocument' = FALSE
  /\ visits' = Once(visits)
  /\ UNCHANGED <<store, form, url, pending, submits, selectedEmergencyType,
                 saveState, sessCreated>>

\* medical page: "Complete Registration": completeOnboardingMutation saves
\* the form with updatePatientMutation and then posts the completion
SubmitMedical ==
  /\ page = "medical"
  /\ ~Falsy(url.patientId)
  /\ InFlight + 2 <= MaxWizardReq
  /\ \E failUpdate \in BOOLEAN, failUpdated \in BOOLEAN,
        failComplete \in BOOLEAN, failCompleted \in BOOLEAN :
       LET id == url.patientId
           body == [admissionLocation |-> GeneralAdmission]
           u == UpdateRoute(patients, activities, Now, id, MedicalBody,
                            failUpdate, failUpdated)
           c == CompleteRoute(u.patients, u.activities, Now + 1, id, body,
                              failComplete, failCompleted)
       IN  IF u.status # 200
           THEN /\ Serve("update", id, MedicalBody, u)
                /\ UNCHANGED <<page, url, saveState>>
           ELSE /\ patients' = c.patients
                /\ activities' = c.activities
                /\ stepHist' = HistAfter(HistAfter(stepHist, u.patients),
                                         c.patients)
                /\ nreq' = nreq + 2
                /\ lastResp' = Response("complete", id, body, c,
                                        Len(u.activities))
                /\ UNCHANGED <<backend, handlers>>
                /\ page' = "confirmation"
                /\ url' = [NoParams EXCEPT !.patientId = id,
                                           !.completed = (c.status = 200)]
                /\ saveState' = "idle"
  /\ UNCHANGED <<pidState, uploadingDocument, pending, visits, submits,
                 selectedEmergencyType, sessCreated>>
  /\ UNCHANGED form

\* medical page: "Skip for Now"
SkipMedical ==
  /\ page = "medical"
  /\ ~Falsy(url.patientId)
  /\ page' = "confirmation"
  /\ url' = [NoParams EXCEPT !.patientId = url.patientId, !.completed = TRUE]
  /\ saveState' = "idle"
  /\ UNCHANGED <<store, form, pidState, uploadingDocument, pending, visits, submits,
                 selectedEmergencyType, sessCreated>>

\* medical page: "Back to Insurance"
BackToInsurance ==
  /\ page = "medical"
  /\ ~Falsy(url.patientId)
  /\ page' = "insurance"
  /\ UNCHANGED <<store, form, url, pidState, uploadingDocument, pending, visits,
                 submits, selectedEmergencyType, saveState, sessCreated>>

\* emergency page: handleEmergencyTypeSelect
SelectEmergencyType(value) ==
  /\ page = "emergency"
  /\ selectedEmergencyType' = value
  /\ UNCHANGED <<store, form, page, url, pidState, uploadingDocument, pending,
                 visits, submits, saveState, sessCreated>>

\* emergency page: handleCompleteEmergency
CompleteEmergency ==
  /\ page = "emergency"
  /\ selectedEmergencyType # ""
  /\ \E location \in LocationsFor(selectedEmergencyType) :
       url' = [NoParams EXCEPT !.patientId = EmgId, !.emergency = TRUE,
                               !.emergencyLocation = location,
                               !.emergencyType = selectedEmergencyType]
  /\ page' = "confirmation"
  /\ saveState' = "idle"
  /\ UNCHANGED <<store, form, pidState, uploadingDocument, pending, visits, submits,
                 selectedEmergencyType, sessCreated>>

\* confirmation page: the effect that runs saveEmergencyPatient
SaveEmergencyPatient ==
  /\ page = "confirmation"
  /\ url.emergency
  /\ saveState = "idle"
  /\ InFlight < MaxWizardReq
  /\ Len(patients) < MaxPatients
  /\ \E failPatient \in BOOLEAN, failActivity \in BOOLEAN :
       LET emergencyData ==
             EmergencyData(GetLocationDetails(url.location), url.emergencyType)
           r == CreateRoute(patients, activities, Now, emergencyData,
                            failPatient, failActivity)
       IN  /\ Serve("create", Len(patients) + 1, emergencyData, r)
           /\ saveState' = IF r.status = 201 THEN "saved" ELSE "failed"
  /\ UNCHANGED <<page, url, pidState, uploadingDocument, pending, visits,
                 submits, selectedEmergencyType, sessCreated>>
  /\ UNCHANGED form

\* confirmation page: "Return to Welcome"
ReturnToWelcome ==
  /\ page = "confirmation"
  /\ ~(url.emergency /\ saveState = "idle")
  /\ page' = "welcome"
  /\ url' = NoParams
  /\ UNCHANGED <<store, form, pidState, uploadingDocument, pending, visits, submits,
                 selectedEmergencyType, saveState, sessCreated>>

\* navigation bar of the medical and confirmation pages: the onboarding
\* step links it shows for the page's patientId
NavigateStep(step) ==
  /\ page \in {"medical", "confirmation"}
  /\ ~Falsy(url.patientId)
  /\ ~(page = "confirmation" /\ url.emergency /\ saveState = "idle")
  /\ page' = step
  /\ url' = [NoParams EXCEPT !.patientId = url.patientId]
  /\ pidState' = IF step = "personal" THEN NoId ELSE pidState
  /\ uploadingDocument' = IF step = "personal" THEN FALSE ELSE uploadingDocument
  /\ visits' = IF step = "personal" THEN Once(visits) ELSE visits
  /\ saveState' = IF step = "confirmation" /\ page # "confirmation"
                  THEN "idle" ELSE saveState
  /\ UNCHANGED <<store, form, pending, submits, selectedEmergencyType, sessCreated>>

NextWizard ==
  \/ \E emergency \in BOOLEAN : StartOnboarding(emergency)
  \/ OpenEmergency
  \/ \E data \in FormValues : SubmitPersonal(data)
  \/ \E data \in FormValues : UploadDocument(data)
  \/ \E m \in pending : CreateAnswered(m)
  \/ \E m \in pending : DocumentsAnswered(m)
  \/ SubmitInsurance
  \/ BackToPersonal
  \/ SubmitMedical
  \/ SkipMedical
  \/ BackToInsurance
  \/ \E value \in EmergencyTypes : SelectEmergencyType(value)
  \/ CompleteEmergency
  \/ SaveEmergencyPatient
  \/ ReturnToWelcome
  \/ \E step \in {"personal", "medical", "confirmation"} : NavigateStep(step)

SpecWizard == Init /\ [][NextWizard]_vars

\* ------------------------------------------------------------------------
\* Properties of the wizard
\* ------------------------------------------------------------------------
\* C3: the distinct successive onboardingStep values of the record of a
\* completed patient are 1, 2, 3, 4 on the standard path and 1, 2 on the
\* emergency path.
C3_StepSequence ==
  \A id \in Ids :
    patients[id].isCompleted =>
      stepHist[id] = IF patients[id].isEmergency
                     THEN <<1, 2>> ELSE <<1, 2, 3, 4>>

CreatedActivities == {i \in 1..Len(activities) : activities[i].action = "patient_created"}

\* C4: once the personal page, opened once in the session and submitted
\* once, has had all its requests answered and a patient was created, the
\* store holds exactly one patient, first persisted at step 1 and not
\* completed, and exactly one patient_created activity, whatever else the
\* user did on the page.
C4_OnePatientPerSubmit ==
  (/\ visits = 1 /\ submits = 1 /\ pending = {}
   /\ saveState = "idle" /\ sessCreated > 0) =>
     /\ sessCreated = 1
     /\ Len(patients) = 1
     /\ stepHist[1][1] = 1
     /\ Cardinality(CreatedActivities) = 1

\* C7: a patient created for the emergency type cardiac, trauma or
\* pediatric is persisted with the admission location of that type's entry
\* in the location table (cardiac: the Cardiac Care Unit).
C7_EmergencyLocation ==
  (/\ lastResp.op = "create"
   /\ lastResp.status = 201
   /\ Field(lastResp.body, "emergencyType") \in {"cardiac", "trauma", "pediatric"}) =>
     \E location \in LocationsFor(lastResp.body.emergencyType) :
       Field(patients[lastResp.id], "admissionLocation")
         = EmergencyLocationName[location]

\* the string-valued fields of the record p that hold a value
FilledFields(p) == {f \in (DOMAIN p) \ NonStringFields : ~Empty(p[f])}

\* C11: when a document upload for an existing patient is answered with
\* success, every field of the patient that was non-empty before the upload
\* holds the same value afterwards.
C11_PrefillKeepsValues ==
  [][(Served("documents") /\ lastResp'.status = 200 /\ lastResp'.id \in Ids) =>
       \A f \in FilledFields(patients[lastResp'.id]) :
         patients'[lastResp'.id][f] = patients[lastResp'.id][f]]_vars

\* C12: an update of a completed patient leaves the record as it was (apart
\* from updatedAt): it stays completed, and its step, admission location and
\* collected fields are unchanged.
C12_CompletedIsFrozen ==
  [][(/\ Served("update")
      /\ lastResp'.id \in Ids
      /\ patients[lastResp'.id].isCompleted) =>
       Without(patients'[lastResp'.id], "updatedAt")
         = Without(patients[lastResp'.id], "updatedAt")]_vars

\* the fields the insurance and medical steps collect
StepFields ==
  {"insuranceProvider", "insurancePolicyNumber", "insuranceGroupNumber",
   "allergies", "medications", "medicalHistory"}

\* C13: no step of a session that follows the application's pages changes
\* an insurance or medical field of a patient created with isEmergency =
\* true.
C13_EmergencySkipsSteps ==
  [][\A id \in Ids :
       patients[id].isEmergency =>
         Pick(patients'[id], StepFields) = Pick(patients[id], StepFields)]_vars

\* C14: no step changes the isEmergency of a stored patient.
C14_EmergencyFlagImmutable ==
  [][\A id \in Ids :
       patients'[id].isEmergency = patients[id].isEmergency]_vars

AdmissionLocationOf(ps, id) ==
  IF id \in 1..Len(ps) THEN Field(ps[id], "admissionLocation") ELSE Undef

\* C15: a step that serves no complete request leaves the admissionLocation
\* of every patient as it was, and a patient it creates has an empty
\* admissionLocation.
C15_LocationOnlyByComplete ==
  [][lastResp'.op # "complete" =>
       \A id \in 1..Len(patients') :
         IF id \in Ids
         THEN AdmissionLocationOf(patients', id) = AdmissionLocationOf(patients, id)
         ELSE Empty(AdmissionLocationOf(patients', id))]_vars

\* ------------------------------------------------------------------------
\* Complete requests served concurrently: a handler runs from one await to
\* the next, and handlers of different requests interleave at the awaits
\* ------------------------------------------------------------------------
MaxHandlers == 2

EmergencyRoom == "Emergency Room"

RaceLocations == {GeneralAdmission, EmergencyRoom}

\* rid: the request; existed: the patient was stored when the request
\* arrived; failed: a database call of the handler failed; writeNo: the
\* position of the handler's store write among the writes of all handlers
Handler(rid, id, loc, pc, status, failed, writeNo) ==
  [rid |-> rid, id |-> id, admissionLocation |-> loc, pc |-> pc,
   status |-> status, failed |-> failed, writeNo |-> writeNo,
   existed |-> id \in Ids]

\* store writes of complete handlers applied so far
Writes == Cardinality({h \in handlers : h.writeNo > 0})

\* POST /api/patients/:id/complete arrives: the handler runs up to its
\* await of storage.completeOnboarding
CompleteReceived(id, loc) ==
  /\ Cardinality(handlers) < MaxHandlers
  /\ nreq < MaxReq
  /\ handlers' = handlers \cup
       {IF backend = "mongo" /\ id = UndefinedId
        THEN Handler(Cardinality(handlers) + 1, id, loc, "done", 400, FALSE, 0)
        ELSE Handler(Cardinality(handlers) + 1, id, loc, "complete", 0, FALSE, 0)}
  /\ nreq' = nreq + 1
  /\ UNCHANGED <<backend, patients, activities, lastResp, stepHist, browser, form>>

\* the handler's storage.completeOnboarding is applied; the handler goes on
\* to its await of storage.createActivity, or answers 404
CompleteWritten(h) ==
  /\ h \in handlers
  /\ h.pc = "complete"
  /\ backend = "mongo"
  /\ \E fail \in BOOLEAN :
       LET c == MongoCompleteOnboarding(patients, h.id, h.admissionLocation,
                                        Now, fail)
       IN  /\ patients' = c.patients
           /\ stepHist' = HistAfter(stepHist, c.patients)
           /\ handlers' = (handlers \ {h}) \cup
                {IF c.ret = 0
                 THEN [h EXCEPT !.pc = "done", !.status = 404, !.failed = fail]
                 ELSE [h EXCEPT !.pc = "activity", !.writeNo = Writes + 1]}
  /\ UNCHANGED <<backend, activities, nreq, lastResp, browser, form>>

\* the handler's storage.createActivity is applied and the handler answers
CompleteLogged(h) ==
  /\ h \in handlers
  /\ h.pc = "activity"
  /\ \E fail \in BOOLEAN :
       LET a == MongoCreateActivity(activities,
                  CompletedActivity(patients[h.id], h.id, h.admissionLocation),
                  Now, fail)
       IN  /\ activities' = a.activities
           /\ handlers' = (handlers \ {h}) \cup
                {[h EXCEPT !.pc = "done",
                           !.status = IF a.threw THEN 500 ELSE 200,
                           !.failed = a.threw]}
  /\ UNCHANGED <<backend, patients, nreq, lastResp, stepHist, browser, form>>

\* over the in-memory storage no await of the handler waits for I/O: the
\* handler runs to its answer before another request's handler starts
CompleteServedInMemory(h) ==
  /\ h \in handlers
  /\ h.pc = "complete"
  /\ backend = "mem"
  /\ LET r == MemCompleteRoute(patients, activities, Now, h.id,
                               [admissionLocation |-> h.admissionLocation])
     IN  /\ patients' = r.patients
         /\ activities' = r.activities
         /\ stepHist' = HistAfter(stepHist, r.patients)
         /\ handlers' = (handlers \ {h}) \cup
              {[h EXCEPT !.pc = "done", !.status = r.status,
                         !.writeNo = IF r.status = 200 THEN Writes + 1 ELSE 0]}
  /\ UNCHANGED <<backend, nreq, lastResp, browser, form>>

NextRace ==
  \/ \E body \in CreateBodies : CreatePatientRequest(body)
  \/ \E id \in ReqIds, loc \in RaceLocations : CompleteReceived(id, loc)
  \/ \E h \in handlers : CompleteWritten(h)
  \/ \E h \in handlers : CompleteLogged(h)
  \/ \E h \in handlers : CompleteServedInMemory(h)

SpecRace == Init /\ [][NextRace]_vars

HandlersOf(id) == {h \in handlers : h.id = id}

CompletedActivitiesOf(id) ==
  {i \in 1..Len(activities) : IsCompletedActivity(activities[i], id)}

\* C16: when two complete requests for one stored patient, received while
\* the patient was stored and hit by no database failure, have both been
\* answered, both were answered 200, the patient is completed with the
\* admission location of the request whose store write was applied last,
\* and the log holds exactly two onboarding_completed activities of the
\* patient, one per request; whatever the interleaving of the handlers.
C16_ConcurrentCompletes ==
  \A id \in Ids :
    (/\ Cardinality(HandlersOf(id)) = 2
     /\ \A h \in HandlersOf(id) : h.pc = "done" /\ h.existed /\ ~h.failed) =>
      /\ \A h \in HandlersOf(id) : h.status = 200
      /\ patients[id].isCompleted
      /\ \E h \in HandlersOf(id) :
           /\ \A g \in HandlersOf(id) : g.writeNo <= h.writeNo
           /\ Field(patients[id], "admissionLocation") = h.admissionLocation
      /\ Cardinality(CompletedActivitiesOf(id)) = 2
      /\ \A h \in HandlersOf(id) :
           \E i \in CompletedActivitiesOf(id) :
             activities[i].description[4] = h.admissionLocation

\* two requests with different locations were interleaved: the request that
\* wrote the patient first logged its activity last
C16_Witness ==
  \E h1 \in handlers, h2 \in handlers :
    /\ h1.id = h2.id /\ h1.existed /\ h2.existed
    /\ h1.pc = "done" /\ h2.pc = "done"
    /\ h1.status = 200 /\ h2.status = 200
    /\ h1.admissionLocation # h2.admissionLocation
    /\ h1.writeNo = 1 /\ h2.writeNo = 2
    /\ patients[h1.id].admissionLocation = h2.admissionLocation
    /\ activities[Len(activities)].description[4] = h1.admissionLocation
    /\ activities[Len(activities) - 1].description[4] = h2.admissionLocation

\* C17: the medical step never blocks completion: whenever the medical page
\* submits its form, whatever the answer to saving the medical data, the
\* completion request for that patient is the request the submission ends with.
C17_MedicalNeverBlocks ==
  [][(page = "medical" /\ nreq' > nreq /\ lastResp'.op \in {"update", "complete"}) =>
       lastResp'.op = "complete"]_vars

\* C18: a failure of the AI provider while a document is processed is never
\* fatal: on the server that analyses documents the upload of a document of a
\* stored patient is answered 200, no field of any patient changes, the upload
\* is logged, and the personal page is left as it was with its upload finished.
C18_AiFailureNotFatal ==
  [][(/\ Served("documents")
      /\ backend = "mem"
      /\ lastResp'.id \in Ids
      /\ AiFailed(lastResp'.body)) =>
       /\ lastResp'.status = 200
       /\ patients' = patients
       /\ Len(activities') = Len(activities) + 1
       /\ activities'[Len(activities')].action = "document_uploaded"
       /\ uploadingDocument' = FALSE
       /\ <<page, url, pidState>>' = <<page, url, pidState>>]_vars

C18_Witness ==
  /\ lastResp.op = "documents"
  /\ backend = "mem"
  /\ lastResp.id \in Ids
  /\ lastResp.body.analysisFails
  /\ lastResp.status = 200
  /\ patients[lastResp.id].firstName = "Jane"

\* C19: the dashboard statistics: with no patient in the store each of the four
\* statistics is 0; with exactly one patient, created and completed on the day
\* of the request, completedToday is 1 and inProgress (the pending count) is 0.
C19_DashboardCounts ==
  lastResp.op = "stats" =>
    LET stats == lastResp.body
        today == StartOfDay(nreq)
    IN  /\ Len(patients) = 0 =>
             /\ stats.totalPatients = 0
             /\ stats.completedToday = 0
             /\ stats.inProgress = 0
             /\ stats.averageTime = 0
        /\ (/\ Len(patients) = 1
            /\ patients[1].isCompleted
            /\ patients[1].createdAt >= today
            /\ patients[1].updatedAt >= today) =>
             /\ stats.completedToday = 1
             /\ stats.inProgress = 0

\* C20: the activity log is append-only: every step leaves each recorded
\* activity in place and unchanged, so the log after a step is the log before
\* it followed by the activities the step recorded.
C20_ActivitiesAppendOnly ==
  [][/\ Len(activities') >= Len(activities)
     /\ SubSeq(activities', 1, Len(activities)) = activities]_vars

C20_Witness ==
  /\ Len(activities) >= 2
  /\ lastResp.actsBefore >= 1
  /\ Len(activities) > lastResp.actsBefore
  /\ activities[1].patientId = activities[Len(activities)].patientId

\* C21: the recent activities a request is answered with are at most limit
\* activities, they are the limit most recently created activities of the log
\* (all of the log when it is shorter), and they are ordered newest first.
C21_RecentNewestFirst ==
  lastResp.op = "activities" =>
    LET r == lastResp.body.activities
        n == Len(activities)
        k == IF n < RecentLimit THEN n ELSE RecentLimit
    IN  /\ Len(r) <= RecentLimit
        /\ Len(r) = k
        /\ \A i \in 1..(Len(r) - 1) : r[i].createdAt >= r[i + 1].createdAt
        /\ \A i \in 1..Len(r) : \E j \in 1..n : activities[j] = r[i]
        /\ \A j \in 1..n :
             (\A i \in 1..Len(r) : r[i] # activities[j]) =>
               \A i \in 1..Len(r) : activities[j].createdAt <= r[i].createdAt

\* C22: timestamps: a successful create sets createdAt and updatedAt of the new
\* patient to the time of the request, every successful update or complete
\* sets updatedAt of its patient to the time of that request, and no step
\* changes the createdAt of a stored patient, whatever an update carries.
C22_Timestamps ==
  [][/\ \A id \in Ids : patients'[id].createdAt = patients[id].createdAt
     /\ (Served("create") /\ lastResp'.status = 201) =>
          /\ Len(patients') = Len(patients) + 1
          /\ patients'[Len(patients')].createdAt = nreq'
          /\ patients'[Len(patients')].updatedAt = nreq'
     /\ (/\ \/ Served("update")
            \/ Served("complete")
         /\ lastResp'.status = 200) =>
          patients'[lastResp'.id].updatedAt = nreq']_vars

\* ------------------------------------------------------------------------
\* The home page with the multi-step onboarding form
\* ------------------------------------------------------------------------
MaxFormReq == 5

\* !patientId of the form: null before a patient was created, undefined when
\* the created record carries no id
NoPatientId(id) == id \in {NoId, UndefinedId}

\* totalSteps
TotalSteps == IF emergencyMode THEN 2 ELSE 3

\* isPending of the mounted form: one of its three mutations is in flight
IsPending == \E m \in mutations : m.mounted

FormInFlight == nreq + Cardinality(mutations)

\* values the personal form of the component may hold
FormInputs == {PersonalForm, [PersonalForm EXCEPT !.phone = "555"]}

\* a request a mutationFn of the form has sent; step is the currentStep of
\* the render that sent it
Mutation(kind, id, body) ==
  [kind |-> kind, id |-> id, body |-> body, step |-> currentStep,
   mounted |-> TRUE]

\* createPatientMutation.mutationFn
FormCreate(data) ==
  {Mutation("create", NoId,
            Merge(data, [isEmergency |-> emergencyMode,
                         onboardingStep |-> currentStep]))}

\* updatePatientMutation.mutationFn: throws before any request without an id
FormUpdate(data) ==
  IF NoPatientId(patientId)
  THEN {}
  ELSE {Mutation("update", patientId,
                 Merge(data, [onboardingStep |-> currentStep]))}

\* completeOnboardingMutation.mutationFn
FormComplete ==
  IF NoPatientId(patientId)
  THEN {}
  ELSE {Mutation("complete", patientId,
                 [admissionLocation |->
                    IF emergencyMode THEN EmergencyBed ELSE GeneralAdmission])}

\* home page: "New Patient Onboarding"; the form mounts with its initial state
HandleNewOnboarding ==
  /\ ~showOnboarding
  /\ showOnboarding' = TRUE
  /\ currentStep' = 1
  /\ patientId' = NoId
  /\ UNCHANGED <<store, browser, emergencyMode, mutations>>

\* home page: "Emergency Onboarding"
HandleEmergencyOnboarding ==
  /\ ~showOnboarding
  /\ emergencyMode' = TRUE
  /\ showOnboarding' = TRUE
  /\ currentStep' = 1
  /\ patientId' = NoId
  /\ UNCHANGED <<store, browser, mutations>>

\* form: "Back to Dashboard"; the form unmounts, its requests stay in flight
OnCancel ==
  /\ showOnboarding
  /\ showOnboarding' = FALSE
  /\ emergencyMode' = FALSE
  /\ currentStep' = 1
  /\ patientId' = NoId
  /\ mutations' = {[m EXCEPT !.mounted = FALSE] : m \in mutations}
  /\ UNCHANGED <<store, browser>>

\* form: a mutation of handleFormNext that moves to the next step from the
\* medical step as well
HandleNextPastLast(data, insuranceValid) ==
  /\ showOnboarding
  /\ ~IsPending
  /\ FormInFlight + 2 <= MaxFormReq
  /\ IF currentStep = 1
     THEN IF PersonalInfoSchemaOk(data)
          THEN /\ mutations' = mutations \cup
                    (IF NoPatientId(patientId) THEN FormCreate(data)
                     ELSE FormUpdate(data))
               /\ currentStep' = currentStep + 1
          ELSE UNCHANGED <<mutations, currentStep>>
     ELSE IF currentStep = 2
     THEN IF emergencyMode
          THEN /\ mutations' = mutations \cup FormComplete
               /\ UNCHANGED currentStep
          ELSE IF insuranceValid
               THEN /\ mutations' = mutations \cup
                         FormUpdate(Without(InsuranceBody, "onboardingStep"))
                    /\ currentStep' = currentStep + 1
               ELSE UNCHANGED <<mutations, currentStep>>
     ELSE /\ mutations' = mutations
               \cup FormUpdate(Without(MedicalBody, "onboardingStep"))
               \cup FormComplete
          /\ currentStep' = currentStep + 1
  /\ UNCHANGED <<store, browser, showOnboarding, emergencyMode, patientId>>

\* form: "Continue" / "Complete Onboarding" (handleNext); the button is
\* disabled while a mutation is pending, and the step moves on as soon as the
\* form is valid, without waiting for the request
HandleNext(data, insuranceValid) ==
  /\ showOnboarding
  /\ ~IsPending
  /\ FormInFlight + 2 <= MaxFormReq
  /\ IF currentStep = 1
     THEN IF PersonalInfoSchemaOk(data)
          THEN /\ mutations' = mutations \cup
                    (IF NoPatientId(patientId) THEN FormCreate(data)
                     ELSE FormUpdate(data))
               /\ currentStep' = currentStep + 1
          ELSE UNCHANGED <<mutations, currentStep>>
     ELSE IF currentStep = 2
     THEN IF emergencyMode
          THEN /\ mutations' = mutations \cup FormComplete
               /\ UNCHANGED currentStep
          ELSE IF insuranceValid
               THEN /\ mutations' = mutations \cup
                         FormUpdate(Without(InsuranceBody, "onboardingStep"))
                    /\ currentStep' = currentStep + 1
               ELSE UNCHANGED <<mutations, currentStep>>
     ELSE /\ mutations' = mutations
               \cup FormUpdate(Without(MedicalBody, "onboardingStep"))
               \cup FormComplete
          /\ UNCHANGED currentStep
  /\ UNCHANGED <<store, browser, showOnboarding, emergencyMode, patientId>>

\* form: "Previous" (handlePrevious)
HandlePrevious ==
  /\ showOnboarding
  /\ currentStep # 1
  /\ ~IsPending
  /\ currentStep' = IF currentStep - 1 < 1 THEN 1 ELSE currentStep - 1
  /\ UNCHANGED <<store, browser, showOnboarding, emergencyMode, patientId,
                 mutations>>

\* POST /api/patients of the form is served; onSuccess keeps patient.id
FormCreateAnswered(m) ==
  /\ m \in mutations
  /\ m.kind = "create"
  /\ Len(patients) < MaxPatients
  /\ \E failPatient \in BOOLEAN, failActivity \in BOOLEAN :
       LET r == CreateRoute(patients, activities, Now, m.body, failPatient,
                            failActivity)
       IN  /\ Serve("create", Len(patients) + 1, m.body, r)
           /\ patientId' = IF r.status = 201 /\ m.mounted
                           THEN ClientId(r) ELSE patientId
  /\ mutations' = mutations \ {m}
  /\ UNCHANGED <<browser, showOnboarding, emergencyMode, currentStep>>

\* PATCH /api/patients/:id of the form is served
FormUpdateAnswered(m) ==
  /\ m \in mutations
  /\ m.kind = "update"
  /\ \E failPatient \in BOOLEAN, failActivity \in BOOLEAN :
       Serve("update", m.id, m.body,
             UpdateRoute(patients, activities, Now, m.id, m.body, failPatient,
                         failActivity))
  /\ mutations' = mutations \ {m}
  /\ UNCHANGED <<browser, showOnboarding, emergencyMode, currentStep,
                 patientId>>

\* POST /api/patients/:id/complete of the form is served; onSuccess calls
\* onComplete, which closes the form
FormCompleteAnswered(m) ==
  /\ m \in mutations
  /\ m.kind = "complete"
  /\ \E failPatient \in BOOLEAN, failActivity \in BOOLEAN :
       LET r == CompleteRoute(patients, activities, Now, m.id, m.body,
                              failPatient, failActivity)
       IN  /\ Serve("complete", m.id, m.body, r)
           /\ IF r.status = 200
              THEN /\ showOnboarding' = FALSE
                   /\ currentStep' = 1
                   /\ patientId' = NoId
                   /\ mutations' =
                        {[x EXCEPT !.mounted = FALSE] : x \in mutations \ {m}}
              ELSE /\ mutations' = mutations \ {m}
                   /\ UNCHANGED <<showOnboarding, currentStep, patientId>>
  /\ UNCHANGED <<browser, emergencyMode>>

NextForm ==
  \/ HandleNewOnboarding
  \/ HandleEmergencyOnboarding
  \/ OnCancel
  \/ \E data \in FormInputs, insuranceValid \in BOOLEAN :
       HandleNext(data, insuranceValid)
  \/ HandlePrevious
  \/ \E m \in mutations : FormCreateAnswered(m)
  \/ \E m \in mutations : FormUpdateAnswered(m)
  \/ \E m \in mutations : FormCompleteAnswered(m)

SpecForm == Init /\ [][NextForm]_vars

\* C23: the requests of one patient are applied in the order the form
\* submitted them: a completion is never served while an update of the same
\* patient, submitted with it or before it, is still in flight, and no update
\* is applied to a record that is already completed.
C23_SubmissionOrder ==
  [][/\ Served("complete") =>
          ~\E m \in mutations' : m.kind = "update" /\ m.id = lastResp'.id
     /\ (Served("update") /\ lastResp'.status = 200 /\ lastResp'.id \in Ids) =>
          ~patients[lastResp'.id].isCompleted]_vars

\* C24: onboardingStep never decreases: after every step of the form session,
\* submissions that follow Previous included, the stored onboardingStep of
\* every patient is at least what it was before.
C24_StepMonotonic ==
  [][\A id \in Ids :
       patients'[id].onboardingStep >= patients[id].onboardingStep]_vars

\* C25: a failed or unanswered submission keeps the form on its step: when
\* currentStep advances, no request of the step it leaves is still in flight,
\* and a step after the first is never shown while the form has no patient id.
C25_AdvanceAfterSuccess ==
  [][/\ (showOnboarding /\ showOnboarding' /\ currentStep' > currentStep) =>
          ~\E m \in mutations' : m.mounted /\ m.step = currentStep
     /\ (showOnboarding' /\ currentStep' >= 2) => ~NoPatientId(patientId')]_vars

\* C26: the insurance and medical pages are never shown for a patient id that
\* is absent or the literal "undefined" (the session is redirected to the
\* personal page instead), and they send no update or complete request for
\* such an id.
C26_BadIdRedirects ==
  [][/\ page' \in {"insurance", "medical"} =>
          url'.patientId \notin {NoId, UndefinedId}
     /\ (/\ page \in {"insurance", "medical"}
         /\ nreq' > nreq
         /\ lastResp'.op \in {"update", "complete"}) =>
          lastResp'.id \notin {NoId, UndefinedId}]_vars

\* the fields completeOnboarding writes
CompletionFields == {"isCompleted", "admissionLocation", "updatedAt"}

\* C27: a complete request changes at most isCompleted, admissionLocation and
\* updatedAt of the patient it addresses: every other field of that patient
\* (onboardingStep and isEmergency among them) and every other patient of the
\* store stay as they were, and no patient is added or removed.
C27_CompleteFrame ==
  [][Served("complete") =>
       /\ Len(patients') = Len(patients)
       /\ \A id \in Ids :
            IF id = lastResp'.id
            THEN Pick(patients'[id], (DOMAIN patients'[id]) \ CompletionFields)
                   = Pick(patients[id], (DOMAIN patients[id]) \ CompletionFields)
            ELSE patients'[id] = patients[id]]_vars

C27_Witness ==
  /\ lastResp.op = "complete"
  /\ lastResp.status = 200
  /\ lastResp.id \in Ids
  /\ Len(patients) = 2
  /\ patients[lastResp.id].isCompleted
  /\ patients[lastResp.id].updatedAt = nreq
  /\ patients[lastResp.id].onboardingStep = 1
  /\ \E id \in Ids : ~patients[id].isCompleted

\* C28: the statistics a request is answered with count no patient twice:
\* completedToday + inProgress is at most totalPatients, inProgress is the
\* number of stored patients that are not completed and have a step above 0,
\* and completedToday is the number of completed patients whose updatedAt
\* lies on the day of the request.
C28_StatsPartition ==
  lastResp.op = "stats" =>
    LET stats == lastResp.body
        today == StartOfDay(nreq)
    IN  /\ stats.completedToday + stats.inProgress <= stats.totalPatients
        /\ stats.inProgress =
             Cardinality({id \in Ids : /\ ~patients[id].isCompleted
                                       /\ patients[id].onboardingStep > 0})
        /\ stats.completedToday =
             Cardinality({id \in Ids : /\ patients[id].isCompleted
                                       /\ patients[id].updatedAt >= today
                                       /\ patients[id].updatedAt < today + DayLength})

\* C29 as stated, on the server that has the route: a dispatch request that
\* carries both coordinates appends an ambulance_dispatched activity exactly
\* when it carries a patient id, a request that lacks a coordinate is rejected
\* and appends nothing, and no dispatch request changes a patient.
C29_LogsIffPatientId ==
  [][(Served("ambulance") /\ backend = "mongo") =>
       LET body == lastResp'.body
       IN  /\ patients' = patients
           /\ ("latitude" \notin DOMAIN body \/ "longitude" \notin DOMAIN body) =>
                /\ lastResp'.status >= 400
                /\ activities' = activities
           /\ ("latitude" \in DOMAIN body /\ "longitude" \in DOMAIN body) =>
                (body.patientId # NoId <=>
                   activities' = Append(activities,
                     Merge(AmbulanceActivity(body), [createdAt |-> nreq'])))]_vars

\* C29: a dispatch request that is answered 200 has appended one
\* ambulance_dispatched activity of its patient when it carries a patient id
\* and nothing when it carries none; a request that is answered with an
\* error, as every request that lacks a coordinate is, appends nothing; and no
\* dispatch request changes a patient.
C29_LogsWhenAccepted ==
  [][Served("ambulance") =>
       LET body == lastResp'.body
       IN  /\ patients' = patients
           /\ (NoCoordinate(body, "latitude") \/ NoCoordinate(body, "longitude")) =>
                lastResp'.status = 400 \/ backend # "mongo"
           /\ lastResp'.status # 200 =>
                lastResp'.status >= 400 /\ activities' = activities
           /\ lastResp'.status = 200 =>
                IF body.patientId # NoId
                THEN activities' = Append(activities,
                       Merge(AmbulanceActivity(body), [createdAt |-> nreq']))
                ELSE activities' = activities]_vars

C29_Witness ==
  /\ lastResp.op = "ambulance"
  /\ lastResp.status = 200
  /\ lastResp.body.patientId \in Ids
  /\ activities[Len(activities)].action = "ambulance_dispatched"
  /\ activities[Len(activities)].patientId = lastResp.body.patientId

\* C30: while the onboarding form is shown, currentStep stays within
\* 1..totalSteps (2 steps in emergency mode, 3 in standard mode) under every
\* sequence of Next and Previous, and a completion request is only ever sent
\* from the last step.
C30_StepInRange ==
  [][/\ showOnboarding' => currentStep' \in 1..(IF emergencyMode' THEN 2 ELSE 3)
     /\ \A m \in mutations' \ mutations :
          (m.kind = "complete" /\ m.mounted) =>
            /\ m.step = TotalSteps
            /\ currentStep = TotalSteps
            /\ currentStep' = TotalSteps]_vars

C30_Witness ==
  /\ showOnboarding
  /\ ~emergencyMode
  /\ currentStep = 3
  /\ \E m \in mutations : m.kind = "complete" /\ m.step = 3 /\ m.mounted

====
